---- MODULE Spec2Model ----
(***************************************************************************)
(* Model of the resize package: the box/image transforms of                *)
(* src/resize/transform.py and the KITTI label codec of                    *)
(* src/resize/kitti.py.                                                    *)
(*                                                                         *)
(* Numbers.  A Python float is modelled by the rational <<n, d>> (d > 0,   *)
(* lowest terms) it is the nearest double to; arithmetic on floats is      *)
(* rational arithmetic.  Where the code applies a discontinuous operation  *)
(* to a float (int() truncation in apply_letterbox, fixed-precision        *)
(* formatting in write_kitti_labels) the outcome of the IEEE-754 double    *)
(* computation is computed exactly, from the sign and size of the rounding *)
(* error of the division (valid for quotients below 2^40).  A value that   *)
(* is not a number (None, a string) is the empty tuple <<>>.               *)
(*                                                                         *)
(* Records ("objects") are Python dicts: functions from a set of field     *)
(* names to values.  A file is a sequence of lines, a line the sequence of *)
(* its whitespace-separated tokens.                                        *)
(***************************************************************************)
EXTENDS Integers, Sequences, FiniteSets, TLC

VARIABLES
    op,           \* the transform call made: "none", "scale", "stretch", "letterbox"
    img,          \* the caller's image
    objects,      \* the caller's record list
    new_w, new_h, \* target size passed to apply_stretch / apply_letterbox
    sargs,        \* <<scale_x, scale_y, offset_x, offset_y>> passed to scale_objects
    plan,         \* locals of apply_letterbox (scale, scaled_w, scaled_h, pad_x, pad_y)
    out_img,      \* returned image
    out_objects,  \* returned record list
    err,          \* whether the call reported through logging.error
    fs,           \* the destination: [parent, file], and
    text,         \*   the content of the label file
    hist,         \* codec calls made so far, oldest first
    ret,          \* result of the last write_kitti_labels: "True", "False", "raised"
    loaded        \* result of the last load_kitti_labels

vars == <<op, img, objects, new_w, new_h, sargs, plan, out_img, out_objects, err,
          fs, text, hist, ret, loaded>>

-----------------------------------------------------------------------------
(* Bounds of the model *)

MaxObjs == 2
MaxLines == 3
MaxDim == 2
MaxTarget == 3
MaxCalls == 2

-----------------------------------------------------------------------------
(* Rational arithmetic *)

Abs(x) == IF x < 0 THEN -x ELSE x

RECURSIVE GCD(_, _)
GCD(a, b) == IF b = 0 THEN a ELSE GCD(b, a % b)

Rat(n, d) ==
    LET g == GCD(Abs(n), Abs(d))
        s == IF d < 0 THEN -1 ELSE 1
    IN  <<(s * n) \div g, (s * d) \div g>>

IntR(n) == <<n, 1>>
IsNum(v) == Len(v) = 2
RMul(a, b) == Rat(a[1] * b[1], a[2] * b[2])
RAdd(a, b) == Rat(a[1] * b[2] + b[1] * a[2], a[2] * b[2])
RLe(a, b) == a[1] * b[2] <= b[1] * a[2]
RLt(a, b) == a[1] * b[2] < b[1] * a[2]
RMin(a, b) == IF RLe(a, b) THEN a ELSE b

-----------------------------------------------------------------------------
(* IEEE-754 double rounding, computed on small integers *)

RECURSIVE Pow2(_)
Pow2(k) == IF k <= 0 THEN 1 ELSE 2 * Pow2(k - 1)

RECURSIVE Pow2Mod(_, _)
Pow2Mod(k, m) == IF k <= 0 THEN 1 % m ELSE (2 * Pow2Mod(k - 1, m)) % m

RECURSIVE IsPow2(_)
IsPow2(n) == IF n = 1 THEN TRUE ELSE IF n % 2 = 1 THEN FALSE ELSE IsPow2(n \div 2)

\* floor(log2(n / d)) for n, d > 0
RECURSIVE FloorLog2(_, _)
FloorLog2(n, d) ==
    IF n >= 2 * d THEN 1 + FloorLog2(n, 2 * d)
    ELSE IF n < d THEN FloorLog2(2 * n, d) - 1
    ELSE 0

RECURSIVE OddPart(_)
OddPart(d) == IF d % 2 = 0 THEN OddPart(d \div 2) ELSE d

RECURSIVE TwoExp(_)
TwoExp(d) == IF d % 2 = 0 THEN 1 + TwoExp(d \div 2) ELSE 0

\* int(a * (n / w)) as CPython computes it on doubles, for integers a > 0, w > 0:
\* the quotient n / w is rounded to 53 bits, the product is rounded again, and
\* int() truncates toward zero.  When a*n/w is not an integer the rounding
\* errors cannot cross an integer; when it is an integer K the result is K or
\* K - 1 according to the sign and size of the error.
RECURSIVE TruncMulDiv(_, _, _)
TruncMulDiv(a, n, w) ==
    IF n = 0 THEN 0
    ELSE IF n < 0 THEN -TruncMulDiv(a, -n, w)
    ELSE IF (a * n) % w # 0 THEN (a * n) \div w
    ELSE
      LET K == (a * n) \div w IN
      IF IsPow2(w \div GCD(n, w)) THEN K
      ELSE
        LET s    == 52 - FloorLog2(n, w)
            r    == ((n % w) * Pow2Mod(s, w)) % w
            rhow == IF 2 * r < w THEN -r ELSE w - r
            rho  == (a * rhow) \div w
            L    == IF IsPow2(K) THEN FloorLog2(K, 1) + s - 1 ELSE FloorLog2(K, 1) + s
            t    == L - 52
        IN  IF rho >= 0 THEN K
            ELSE IF t <= 0 THEN K - 1
            ELSE IF 2 * (-rho) <= Pow2(t) THEN K ELSE K - 1

-----------------------------------------------------------------------------
(* Label text.  A token is a word or a decimal numeral: Num(m, k) is the    *)
(* text of m / 10^k written with exactly k decimals ("1.50" is Num(150, 2), *)
(* "3" is Num(3, 0)).                                                       *)

Word(str) == [t |-> "word", s |-> str, m |-> 0, k |-> 0]
Num(m, k) == [t |-> "num", s |-> "", m |-> m, k |-> k]

RECURSIVE Pow10(_)
Pow10(k) == IF k <= 0 THEN 1 ELSE 10 * Pow10(k - 1)

-----------------------------------------------------------------------------
(* Records *)

RequiredFields ==
    <<"class_name", "truncation", "occlusion", "alpha", "bounding_box",
      "3d_dimensions", "location", "rotation_y">>

Has(obj, f) == f \in DOMAIN obj

Restrict(obj, S) == [k \in S |-> obj[k]]

\* A ground-truth record as load_kitti_labels builds it, without the score key.
Obj(c, t, o, a, bb, dims, loc, ry) ==
    [k \in {RequiredFields[i] : i \in 1..Len(RequiredFields)} |->
        CASE k = "class_name"    -> c
          [] k = "truncation"    -> t
          [] k = "occlusion"     -> o
          [] k = "alpha"         -> a
          [] k = "bounding_box"  -> bb
          [] k = "3d_dimensions" -> dims
          [] k = "location"      -> loc
          [] k = "rotation_y"    -> ry]

WithScore(obj, s) == [k \in DOMAIN obj \cup {"score"} |-> IF k = "score" THEN s ELSE obj[k]]

Without(obj, f) == Restrict(obj, DOMAIN obj \ {f})

None == <<>>

Car ==
    Obj(<<Word("Car")>>, IntR(0), 0, Rat(-157, 100),
        <<IntR(1), IntR(1), IntR(2), IntR(2)>>,
        <<Rat(3, 2), IntR(2), IntR(4)>>, <<IntR(1), IntR(2), IntR(10)>>, Rat(1, 3))

Van ==
    Obj(<<Word("Van")>>, Rat(1, 8), 2, Rat(2469135, 2000000),
        <<Rat(1, 2), IntR(0), Rat(5, 2), IntR(3)>>,
        <<Rat(1, 200), Rat(3, 200), Rat(1, 3)>>, <<IntR(-1), Rat(2, 3), Rat(7, 8)>>,
        Rat(-1, 2000000))

\* Records with a bounding box scale_objects cannot remap or without one.
NoBox == Without(Car, "bounding_box")
ShortBox == [Car EXCEPT !["bounding_box"] = <<IntR(1), IntR(1), IntR(2)>>]
TextBox == [Van EXCEPT !["bounding_box"] = <<IntR(1), None, IntR(2), IntR(2)>>]

-----------------------------------------------------------------------------
(* transform.py: scale_objects *)

\* x1, y1, x2, y2 = obj["bounding_box"] raises ValueError unless there are 4 values
Unpacks(obj) == Len(obj["bounding_box"]) = 4

\* x * scale + offset raises TypeError unless x is a number
Multiplies(obj) == \A i \in 1..4 : IsNum(obj["bounding_box"][i])

\* the offset added before scaling instead of after
ScaledBoxOffsetFirst(bb, scale_x, scale_y, offset_x, offset_y) ==
    <<RMul(RAdd(bb[1], offset_x), scale_x),
      RMul(RAdd(bb[2], offset_y), scale_y),
      RMul(RAdd(bb[3], offset_x), scale_x),
      RMul(RAdd(bb[4], offset_y), scale_y)>>

ScaledBox(bb, scale_x, scale_y, offset_x, offset_y) ==
    <<RAdd(RMul(bb[1], scale_x), offset_x),
      RAdd(RMul(bb[2], scale_y), offset_y),
      RAdd(RMul(bb[3], scale_x), offset_x),
      RAdd(RMul(bb[4], scale_y), offset_y)>>

\* the guard with < for <=
InvalidScaleStrict(scale_x, scale_y) == RLt(scale_x, IntR(0)) \/ RLt(scale_y, IntR(0))

\* The guard of scale_objects.
InvalidScale(scale_x, scale_y) == RLe(scale_x, IntR(0)) \/ RLe(scale_y, IntR(0))

\* a record that cannot be remapped copied through instead of left out
ScaleOneKeeping(obj, scale_x, scale_y, offset_x, offset_y) ==
    IF ~Has(obj, "bounding_box") THEN <<obj>>
    ELSE IF Len(obj["bounding_box"]) # 4
            \/ \E i \in 1..4 : ~IsNum(obj["bounding_box"][i]) THEN <<obj>>
    ELSE <<[obj EXCEPT !["bounding_box"] =
                <<RAdd(RMul(obj["bounding_box"][1], scale_x), offset_x),
                  RAdd(RMul(obj["bounding_box"][2], scale_y), offset_y),
                  RAdd(RMul(obj["bounding_box"][3], scale_x), offset_x),
                  RAdd(RMul(obj["bounding_box"][4], scale_y), offset_y)>>]>>

\* One iteration of the loop: the records appended for obj (none or one).
ScaleOne(obj, scale_x, scale_y, offset_x, offset_y) ==
    IF ~Has(obj, "bounding_box") THEN <<>>
    ELSE IF ~Unpacks(obj) \/ ~Multiplies(obj) THEN <<>>
    ELSE <<[obj EXCEPT !["bounding_box"] =
                ScaledBox(obj["bounding_box"], scale_x, scale_y, offset_x, offset_y)]>>

RECURSIVE ScaleLoop(_, _, _, _, _)
ScaleLoop(objs, scale_x, scale_y, offset_x, offset_y) ==
    IF objs = <<>> THEN <<>>
    ELSE ScaleOne(Head(objs), scale_x, scale_y, offset_x, offset_y)
         \o ScaleLoop(Tail(objs), scale_x, scale_y, offset_x, offset_y)

scale_objects(objs, scale_x, scale_y, offset_x, offset_y) ==
    IF InvalidScale(scale_x, scale_y) THEN objs
    ELSE ScaleLoop(objs, scale_x, scale_y, offset_x, offset_y)

-----------------------------------------------------------------------------
(* Images.  ch is 0 for a 2-D array, else the third dimension; roi is the   *)
(* rectangle <<x1, y1, x2, y2>> of the array that holds the source picture. *)

NoneImg == [kind |-> "None", h |-> 0, w |-> 0, ch |-> 0, roi |-> <<0, 0, 0, 0>>]

Image(w, h, ch) == [kind |-> "array", h |-> h, w |-> w, ch |-> ch, roi |-> <<0, 0, w, h>>]

\* img is None or img.size == 0
InvalidImage(im) == im.kind = "None" \/ im.h * im.w * (IF im.ch = 0 THEN 1 ELSE im.ch) = 0

\* cv2.resize(img, (width, height)) raises unless both are positive
ResizeRaises(width, height) == width <= 0 \/ height <= 0

-----------------------------------------------------------------------------
(* transform.py: apply_stretch *)

\* the fallback returning no records
PassthroughEmpty(im, objs) == [img |-> im, objects |-> <<>>, err |-> TRUE]

\* logging.error(...); return img, objects
Passthrough(im, objs) == [img |-> im, objects |-> objs, err |-> TRUE]

apply_stretch(im, objs, nw, nh) ==
    IF InvalidImage(im) THEN Passthrough(im, objs)
    ELSE
      LET scale_x == Rat(nw, im.w)
          scale_y == Rat(nh, im.h)
      IN  IF ResizeRaises(nw, nh) THEN Passthrough(im, objs)
          ELSE [img     |-> [im EXCEPT !.w = nw, !.h = nh, !.roi = <<0, 0, nw, nh>>],
                objects |-> scale_objects(objs, scale_x, scale_y, IntR(0), IntR(0)),
                err     |-> FALSE]

-----------------------------------------------------------------------------
(* transform.py: apply_letterbox *)

NoPlan ==
    [scale |-> IntR(0), scaled_w |-> 0, scaled_h |-> 0, pad_x |-> 0, pad_y |-> 0]

\* the padding rounded up: the odd pixel on the top/left
LetterboxPlanCeil(w, h, nw, nh) ==
    LET scale    == RMin(Rat(nw, w), Rat(nh, h))
        scaled_w == TruncMulDiv(w, scale[1], scale[2])
        scaled_h == TruncMulDiv(h, scale[1], scale[2])
    IN  [scale    |-> scale,
         scaled_w |-> scaled_w,
         scaled_h |-> scaled_h,
         pad_x    |-> (nw - scaled_w + 1) \div 2,
         pad_y    |-> (nh - scaled_h + 1) \div 2]

LetterboxPlan(w, h, nw, nh) ==
    LET scale    == RMin(Rat(nw, w), Rat(nh, h))
        scaled_w == TruncMulDiv(w, scale[1], scale[2])
        scaled_h == TruncMulDiv(h, scale[1], scale[2])
    IN  [scale    |-> scale,
         scaled_w |-> scaled_w,
         scaled_h |-> scaled_h,
         pad_x    |-> (nw - scaled_w) \div 2,
         pad_y    |-> (nh - scaled_h) \div 2]

\* canvas[pad_y : pad_y + scaled_h, pad_x : pad_x + scaled_w] = img_resized raises
\* ValueError when the shapes differ: the canvas has 3 channels (or none for a 2-D
\* source), and the slice has the resized shape only if it lies inside the canvas.
PasteRaises(im, p, nw, nh) ==
    \/ im.ch \notin {0, 3}
    \/ p.pad_x < 0 \/ p.pad_x + p.scaled_w > nw
    \/ p.pad_y < 0 \/ p.pad_y + p.scaled_h > nh

apply_letterbox(im, objs, nw, nh) ==
    IF InvalidImage(im) THEN Passthrough(im, objs)
    ELSE
      LET p == LetterboxPlan(im.w, im.h, nw, nh) IN
      IF ResizeRaises(p.scaled_w, p.scaled_h) THEN Passthrough(im, objs)
      ELSE IF PasteRaises(im, p, nw, nh) THEN Passthrough(im, objs)
      ELSE [img     |-> [kind |-> "array", h |-> nh, w |-> nw,
                         ch   |-> IF im.ch = 0 THEN 0 ELSE 3,
                         roi  |-> <<p.pad_x, p.pad_y,
                                    p.pad_x + p.scaled_w, p.pad_y + p.scaled_h>>],
            objects |-> scale_objects(objs, p.scale, p.scale,
                                      IntR(p.pad_x), IntR(p.pad_y)),
            err     |-> FALSE]

-----------------------------------------------------------------------------
(* Inputs of the transforms *)

TPool == <<Car, Van, NoBox, ShortBox, TextBox>>

ListsOver(pool, n) ==
    {[i \in 1..k |-> pool[ix[i]]] : k \in {n}, ix \in [1..n -> 1..Len(pool)]}

TLists == UNION {ListsOver(TPool, n) : n \in 0..MaxObjs}

Images ==
    {NoneImg, Image(0, 0, 3), Image(3, 2, 0), Image(2, 2, 4),
     Image(100, 50, 3), Image(49, 49, 3)}
    \cup {Image(w, h, 3) : w \in 1..MaxDim, h \in 1..MaxDim}

Targets == (-1..MaxTarget) \cup {200}

Scales == {IntR(-1), IntR(0), Rat(1, 2), IntR(2)}

Offsets == {<<IntR(0), IntR(0)>>, <<IntR(1), Rat(-3, 2)>>}

NoArgs == <<IntR(1), IntR(1), IntR(0), IntR(0)>>

InitCodecIdle ==
    /\ fs = [parent |-> "present", file |-> "absent"]
    /\ text = <<>>
    /\ hist = <<>>
    /\ ret = "none"
    /\ loaded = <<>>

InitTransform ==
    /\ op = "none"
    /\ img \in Images
    /\ objects \in TLists
    /\ new_w = 0
    /\ new_h = 0
    /\ sargs = NoArgs
    /\ plan = NoPlan
    /\ out_img = NoneImg
    /\ out_objects = <<>>
    /\ err = FALSE
    /\ InitCodecIdle

codecVars == <<fs, text, hist, ret, loaded>>

ScaleObjects ==
    /\ op = "none"
    /\ \E sx \in Scales, sy \in Scales, off \in Offsets :
        /\ sargs' = <<sx, sy, off[1], off[2]>>
        /\ out_objects' = scale_objects(objects, sx, sy, off[1], off[2])
    /\ op' = "scale"
    /\ UNCHANGED <<img, objects, new_w, new_h, plan, out_img, err, codecVars>>

ApplyStretch ==
    /\ op = "none"
    /\ \E nw \in Targets, nh \in Targets :
        LET res == apply_stretch(img, objects, nw, nh) IN
        /\ new_w' = nw
        /\ new_h' = nh
        /\ out_img' = res.img
        /\ out_objects' = res.objects
        /\ err' = res.err
    /\ op' = "stretch"
    /\ UNCHANGED <<img, objects, sargs, plan, codecVars>>

ApplyLetterbox ==
    /\ op = "none"
    /\ \E nw \in Targets, nh \in Targets :
        LET res == apply_letterbox(img, objects, nw, nh) IN
        /\ new_w' = nw
        /\ new_h' = nh
        /\ plan' = IF InvalidImage(img) THEN NoPlan
                   ELSE LetterboxPlan(img.w, img.h, nw, nh)
        /\ out_img' = res.img
        /\ out_objects' = res.objects
        /\ err' = res.err
    /\ op' = "letterbox"
    /\ UNCHANGED <<img, objects, sargs, codecVars>>

NextTransform == ScaleObjects \/ ApplyStretch \/ ApplyLetterbox

SpecTransform == InitTransform /\ [][NextTransform]_vars

-----------------------------------------------------------------------------
(* Parsing tokens *)

\* float(token) raises ValueError unless the token is a numeral
FloatRaises(tok) == tok.t # "num"
FloatOf(tok) == Rat(tok.m, Pow10(tok.k))

\* int(token) raises ValueError unless the token is a numeral without decimals
IntRaises(tok) == tok.t # "num" \/ tok.k # 0
IntOf(tok) == tok.m

-----------------------------------------------------------------------------
(* kitti.py: load_kitti_labels *)

\* the float(...) and int(...) conversions of one line; parts has 15+ tokens
ParseRaises(parts) ==
    \/ \E i \in {2} \cup (4..15) : FloatRaises(parts[i])
    \/ IntRaises(parts[3])
    \/ Len(parts) > 15 /\ FloatRaises(parts[16])

ParsedObj(parts) ==
    WithScore(
        Obj(<<parts[1]>>, FloatOf(parts[2]), IntOf(parts[3]), FloatOf(parts[4]),
            <<FloatOf(parts[5]), FloatOf(parts[6]), FloatOf(parts[7]), FloatOf(parts[8])>>,
            <<FloatOf(parts[9]), FloatOf(parts[10]), FloatOf(parts[11])>>,
            <<FloatOf(parts[12]), FloatOf(parts[13]), FloatOf(parts[14])>>,
            FloatOf(parts[15])),
        IF Len(parts) > 15 THEN FloatOf(parts[16]) ELSE None)

\* the loop stopping at the first malformed line
RECURSIVE LoadLoopStopping(_)
LoadLoopStopping(lines) ==
    IF lines = <<>> THEN <<>>
    ELSE LET parts == Head(lines) IN
         IF Len(parts) = 0 THEN LoadLoopStopping(Tail(lines))
         ELSE IF Len(parts) < 15 THEN <<>>
         ELSE IF ParseRaises(parts) THEN <<>>
         ELSE <<ParsedObj(parts)>> \o LoadLoopStopping(Tail(lines))

\* the loop over the lines: blank, short and unparsable lines are passed over
RECURSIVE LoadLoop(_)
LoadLoop(lines) ==
    IF lines = <<>> THEN <<>>
    ELSE LET parts == Head(lines) IN
         IF Len(parts) = 0 THEN LoadLoop(Tail(lines))
         ELSE IF Len(parts) < 15 THEN LoadLoop(Tail(lines))
         ELSE IF ParseRaises(parts) THEN LoadLoop(Tail(lines))
         ELSE <<ParsedObj(parts)>> \o LoadLoop(Tail(lines))

\* label_path.exists() is false for a missing file; read_text() raises on a
\* path that exists and cannot be read (here: a directory)
load_kitti_labels(f, txt) ==
    IF f.parent # "present" \/ f.file = "absent" THEN <<>>
    ELSE IF f.file = "directory" THEN <<>>
    ELSE LoadLoop(txt)

-----------------------------------------------------------------------------
(* kitti.py: write_kitti_labels *)

\* the integer m with f"{v:.kf}" = Num(m, k), truncating instead of rounding
ScaledTruncated(v, k) ==
    LET N == Abs(v[1])
        g == GCD(Pow10(k), v[2])
        q == (N * (Pow10(k) \div g)) \div (v[2] \div g)
    IN  IF v[1] < 0 THEN -q ELSE q

\* the integer m with f"{v:.kf}" = Num(m, k): the double nearest to v is
\* rounded correctly to k decimals.  v is at a decimal tie only when it is a
\* dyadic rational (the double is v itself: half to even) or when the double
\* lies strictly on one side of v (the side is the sign of the rounding error
\* of v to 53 bits).
ScaledRounded(v, k) ==
    LET N   == Abs(v[1])
        D   == v[2]
        g   == GCD(Pow10(k), D)
        A   == N * (Pow10(k) \div g)
        B   == D \div g
        q   == A \div B
        r   == A % B
        up  == IF 2 * r < B THEN FALSE
               ELSE IF 2 * r > B THEN TRUE
               ELSE IF IsPow2(D) THEN q % 2 = 1
               ELSE LET s   == 52 - FloorLog2(N, D)
                        d   == OddPart(D)
                        rem == ((N % d) * Pow2Mod(s - TwoExp(D), d)) % d
                    IN  2 * rem > d
        m   == IF up THEN q + 1 ELSE q
    IN  IF v[1] < 0 THEN -m ELSE m

\* f"{v:.kf}" raises unless v is a number
FormatRaises(v) == ~IsNum(v)
Fixed(v, k) == Num(ScaledRounded(v, k), k)

\* the required-field check
MissingFields(obj) == {RequiredFields[i] : i \in 1..Len(RequiredFields)} \ DOMAIN obj

\* the array-size checks
BadSizes(obj) ==
    \/ Len(obj["bounding_box"]) # 4
    \/ Len(obj["3d_dimensions"]) # 3
    \/ Len(obj["location"]) # 3

\* the test written as: "score" in obj
ScoreKeyPresent(obj) == Has(obj, "score")

\* obj.get("score") is not None
ScorePresent(obj) == Has(obj, "score") /\ obj["score"] # None

\* building line_parts raises when a value cannot be formatted
BuildRaises(obj) ==
    \/ FormatRaises(obj["truncation"])
    \/ FormatRaises(obj["alpha"])
    \/ \E i \in 1..4 : FormatRaises(obj["bounding_box"][i])
    \/ \E i \in 1..3 : FormatRaises(obj["3d_dimensions"][i])
    \/ \E i \in 1..3 : FormatRaises(obj["location"][i])
    \/ FormatRaises(obj["rotation_y"])
    \/ ScorePresent(obj) /\ FormatRaises(obj["score"])

\* " ".join(line_parts): str(class_name) contributes the tokens it consists of
LineParts(obj) ==
    obj["class_name"]
    \o <<Fixed(obj["truncation"], 2),
         Num(obj["occlusion"], 0),
         Fixed(obj["alpha"], 6),
         Fixed(obj["bounding_box"][1], 2),
         Fixed(obj["bounding_box"][2], 2),
         Fixed(obj["bounding_box"][3], 2),
         Fixed(obj["bounding_box"][4], 2),
         Fixed(obj["3d_dimensions"][1], 2),
         Fixed(obj["3d_dimensions"][2], 2),
         Fixed(obj["3d_dimensions"][3], 2),
         Fixed(obj["location"][1], 2),
         Fixed(obj["location"][2], 2),
         Fixed(obj["location"][3], 2),
         Fixed(obj["rotation_y"], 6)>>
    \o (IF ScorePresent(obj) THEN <<Fixed(obj["score"], 4)>> ELSE <<>>)

\* the lines written for one record (none or one)
WriteOne(obj) ==
    IF MissingFields(obj) # {} THEN <<>>
    ELSE IF BadSizes(obj) THEN <<>>
    ELSE IF BuildRaises(obj) THEN <<>>
    ELSE <<LineParts(obj)>>

RECURSIVE WriteLoop(_)
WriteLoop(objs) ==
    IF objs = <<>> THEN <<>> ELSE WriteOne(Head(objs)) \o WriteLoop(Tail(objs))

\* mkdir(parents=True, exist_ok=True) is called before the try block: its
\* exception leaves the function.  open("w") is inside it.
write_kitti_labels(f, txt, objs) ==
    IF f.parent = "blocked" THEN [ret |-> "raised", fs |-> f, text |-> txt]
    ELSE IF f.file = "directory"
         THEN [ret |-> "False", fs |-> [f EXCEPT !.parent = "present"], text |-> txt]
    ELSE [ret  |-> "True",
          fs   |-> [parent |-> "present", file |-> "ok"],
          text |-> WriteLoop(objs)]

-----------------------------------------------------------------------------
(* Inputs of the codec *)

Scored == WithScore(Car, Rat(19, 20))
NoneScore == WithScore(Van, None)
TextScore == WithScore(Car, <<0>>)
NoAlpha == Without(Car, "alpha")
NoneAlpha == [Van EXCEPT !["alpha"] = None]
TwoDims == [Car EXCEPT !["3d_dimensions"] = <<IntR(1), IntR(2)>>]
TwoWords == [Car EXCEPT !["class_name"] = <<Word("Traffic"), Word("Light")>>]

CPool ==
    <<Car, Van, Scored, NoneScore, TextScore, NoAlpha, NoneAlpha, ShortBox, TwoDims,
      TwoWords>>

CLists == UNION {ListsOver(CPool, n) : n \in 0..MaxObjs}

GoodLine(cls) ==
    <<Word(cls), Num(0, 2), Num(1, 0), Num(-1570000, 6),
      Num(100, 2), Num(150, 2), Num(20, 1), Num(3, 0),
      Num(150, 2), Num(200, 2), Num(400, 2),
      Num(100, 2), Num(-250, 2), Num(1000, 2), Num(333333, 6)>>

LinePool ==
    <<GoodLine("Car"),
      GoodLine("Van") \o <<Num(9500, 4)>>,
      GoodLine("Bus") \o <<Num(5, 1), Word("extra")>>,
      <<>>,
      SubSeq(GoodLine("Car"), 1, 10),
      SubSeq(GoodLine("Van"), 1, 14),
      [GoodLine("Car") EXCEPT ![4] = Word("abc")],
      [GoodLine("Van") EXCEPT ![3] = Num(10, 1)],
      GoodLine("Car") \o <<Word("high")>>,
      [GoodLine("Van") EXCEPT ![14] = Word("x")]>>

Texts == UNION {ListsOver(LinePool, n) : n \in 0..MaxLines}

Destinations ==
    {[parent |-> "present", file |-> "absent"],
     [parent |-> "present", file |-> "ok"],
     [parent |-> "present", file |-> "directory"],
     [parent |-> "missing", file |-> "absent"],
     [parent |-> "blocked", file |-> "absent"]}

InitCodec ==
    /\ op = "none"
    /\ img = NoneImg
    /\ new_w = 0
    /\ new_h = 0
    /\ sargs = NoArgs
    /\ plan = NoPlan
    /\ out_img = NoneImg
    /\ out_objects = <<>>
    /\ err = FALSE
    /\ hist = <<>>
    /\ ret = "none"
    /\ loaded = <<>>
    /\ \/ /\ objects \in CLists
          /\ fs \in Destinations
          /\ text = IF fs.file = "ok" THEN <<GoodLine("Old")>> ELSE <<>>
       \/ /\ objects = <<>>
          /\ fs = [parent |-> "present", file |-> "ok"]
          /\ text \in Texts

transformVars == <<op, img, new_w, new_h, sargs, plan, out_img, out_objects, err>>

LoadKittiLabels ==
    /\ Len(hist) < MaxCalls
    /\ loaded' = load_kitti_labels(fs, text)
    /\ hist' = Append(hist, "load")
    /\ UNCHANGED <<objects, fs, text, ret, transformVars>>

WriteKittiLabels ==
    /\ Len(hist) < MaxCalls
    /\ LET res == write_kitti_labels(fs, text, objects) IN
        /\ ret' = res.ret
        /\ fs' = res.fs
        /\ text' = res.text
    /\ hist' = Append(hist, "write")
    /\ UNCHANGED <<objects, loaded, transformVars>>

NextCodec == LoadKittiLabels \/ WriteKittiLabels

SpecCodec == InitCodec /\ [][NextCodec]_vars

-----------------------------------------------------------------------------
(* Properties of the transforms, checked under SpecTransform *)

\* y = x * s + o on rationals, by cross-multiplication
Affine(y, x, s, o) ==
    y[1] * x[2] * s[2] * o[2] = y[2] * (x[1] * s[1] * o[2] + o[1] * x[2] * s[2])

HasBoxKey(obj) == Has(obj, "bounding_box")

\* a bounding_box of exactly four numbers
FourNumbers(obj) ==
    /\ Has(obj, "bounding_box")
    /\ Len(obj["bounding_box"]) = 4
    /\ \A c \in 1..4 : IsNum(obj["bounding_box"][c])

\* out is sel, record by record: every box coordinate mapped by
\* (sx, sy, ox, oy), every other field as it was
BoxesMapped(out, sel, sx, sy, ox, oy) ==
    /\ Len(out) = Len(sel)
    /\ \A k \in 1..Len(sel) :
        /\ DOMAIN out[k] = DOMAIN sel[k]
        /\ \A f \in DOMAIN sel[k] \ {"bounding_box"} : out[k][f] = sel[k][f]
        /\ FourNumbers(sel[k])
        /\ FourNumbers(out[k])
        /\ Affine(out[k]["bounding_box"][1], sel[k]["bounding_box"][1], sx, ox)
        /\ Affine(out[k]["bounding_box"][2], sel[k]["bounding_box"][2], sy, oy)
        /\ Affine(out[k]["bounding_box"][3], sel[k]["bounding_box"][3], sx, ox)
        /\ Affine(out[k]["bounding_box"][4], sel[k]["bounding_box"][4], sy, oy)

Resized == op \in {"stretch", "letterbox"} /\ ~err

\* min(new_w / w, new_h / h), unreduced
MinScale ==
    IF new_w * img.h <= new_h * img.w THEN <<new_w, img.w>> ELSE <<new_h, img.h>>

\* the records of the call remapped by the plan the claim gives for the transform
RemappedByPlan ==
    IF op = "stretch"
    THEN BoxesMapped(out_objects, SelectSeq(objects, FourNumbers),
                     <<new_w, img.w>>, <<new_h, img.h>>, IntR(0), IntR(0))
    ELSE BoxesMapped(out_objects, SelectSeq(objects, FourNumbers),
                     MinScale, MinScale, IntR(out_img.roi[1]), IntR(out_img.roi[2]))

\* C1: after a successful apply_stretch or apply_letterbox every output record
\* is an input record with its bounding_box mapped by the plan (stretch:
\* new_w/w, new_h/h, 0, 0; letterbox: scale, scale, pad_x, pad_y with
\* scale = min(new_w/w, new_h/h) and the pads where the picture was pasted) and
\* every other field identical.
C1_BoxesFollowPlan == Resized => RemappedByPlan

C1_Witness ==
    /\ op = "letterbox" /\ ~err
    /\ out_img.roi[2] > 0
    /\ Len(out_objects) = 2
    /\ out_objects[1]["bounding_box"] # objects[1]["bounding_box"]

\* C2: after a successful apply_letterbox the source rectangle [0, 0, w, h]
\* mapped by (scale, scale, pad_x, pad_y) is the rectangle the resized pixels
\* occupy on the canvas.
C2_PixelsAndBoxesAgree ==
    (op = "letterbox" /\ ~err) =>
        /\ Affine(IntR(out_img.roi[1]), IntR(0), plan.scale, IntR(plan.pad_x))
        /\ Affine(IntR(out_img.roi[2]), IntR(0), plan.scale, IntR(plan.pad_y))
        /\ Affine(IntR(out_img.roi[3]), IntR(img.w), plan.scale, IntR(plan.pad_x))
        /\ Affine(IntR(out_img.roi[4]), IntR(img.h), plan.scale, IntR(plan.pad_y))

\* C5: apply_stretch and apply_letterbox return either an image of exactly
\* new_w x new_h with the remapped records, or the input image with the input
\* records; never a mix.
C5_AllOrNothing ==
    op \in {"stretch", "letterbox"} =>
        \/ /\ out_img.kind = "array"
           /\ out_img.w = new_w
           /\ out_img.h = new_h
           /\ ~InvalidImage(img)
           /\ RemappedByPlan
        \/ /\ out_img = img
           /\ out_objects = objects

\* a fallback taken although the image is valid and the target positive, with
\* records that a remap would have changed
C5_Witness ==
    /\ op = "letterbox" /\ err
    /\ ~InvalidImage(img)
    /\ new_w > 0 /\ new_h > 0
    /\ objects # <<>>
    /\ out_objects = objects

\* C7: scale_objects with scale_x <= 0 or scale_y <= 0 returns the input list
\* unmodified, whatever the offsets and the records.
C7_InvalidScaleIsIdentity ==
    (op = "scale" /\ (sargs[1][1] <= 0 \/ sargs[2][1] <= 0)) => out_objects = objects

C7_Witness ==
    /\ op = "scale"
    /\ sargs[1][1] = 0 /\ sargs[2][1] > 0
    /\ sargs[3][1] # 0
    /\ Len(objects) = 2
    /\ ~HasBoxKey(objects[1])
    /\ FourNumbers(objects[2])
    /\ out_objects = objects

\* C8: for a valid image and a positive target the letterbox plan pastes the
\* picture inside the canvas, and the right (bottom) padding exceeds the left
\* (top) padding by 0 when the leftover is even and by exactly 1 when it is
\* odd; 100x50 into 200x200 gives scale 2, 200x100, pad_x 0, pad_y 50.
C8_PaddingPlacement ==
    (op = "letterbox" /\ ~InvalidImage(img) /\ new_w > 0 /\ new_h > 0) =>
        LET left   == plan.pad_x
            right  == new_w - plan.scaled_w - plan.pad_x
            top    == plan.pad_y
            bottom == new_h - plan.scaled_h - plan.pad_y
        IN  /\ 0 <= left /\ left + plan.scaled_w <= new_w
            /\ 0 <= top /\ top + plan.scaled_h <= new_h
            /\ right - left = (new_w - plan.scaled_w) % 2
            /\ bottom - top = (new_h - plan.scaled_h) % 2
            /\ (img.w = 100 /\ img.h = 50 /\ new_w = 200 /\ new_h = 200) =>
                    /\ plan.scale = IntR(2)
                    /\ plan.scaled_w = 200 /\ plan.scaled_h = 100
                    /\ plan.pad_x = 0 /\ plan.pad_y = 50
                    /\ out_img.roi = <<0, 50, 200, 150>>

C8_Witness ==
    /\ op = "letterbox" /\ ~err
    /\ (new_h - plan.scaled_h) % 2 = 1
    /\ plan.pad_y > 0
    /\ new_h - plan.scaled_h - plan.pad_y = plan.pad_y + 1

\* C9 as claimed: with valid scales scale_objects drops exactly the records
\* that lack a bounding_box.
C9_DropsOnlyMissingBox ==
    (op = "scale" /\ sargs[1][1] > 0 /\ sargs[2][1] > 0) =>
        /\ Len(out_objects) = Len(SelectSeq(objects, HasBoxKey))
        /\ BoxesMapped(out_objects, SelectSeq(objects, HasBoxKey),
                       sargs[1], sargs[2], sargs[3], sargs[4])

\* C9, amended: with valid scales the output of scale_objects is the
\* subsequence of the input records whose bounding_box is four numbers, in
\* input order, each with its box remapped; a record without a bounding_box
\* and a record whose bounding_box is not four numbers are both left out.
C9_DropsUnmappableBoxes ==
    (op = "scale" /\ sargs[1][1] > 0 /\ sargs[2][1] > 0) =>
        BoxesMapped(out_objects, SelectSeq(objects, FourNumbers),
                    sargs[1], sargs[2], sargs[3], sargs[4])

C9_Witness ==
    /\ op = "scale" /\ sargs[1][1] > 0 /\ sargs[2][1] > 0
    /\ Len(objects) = 2
    /\ ~HasBoxKey(objects[1])
    /\ FourNumbers(objects[2])
    /\ Len(out_objects) = 1

-----------------------------------------------------------------------------
(* Properties of the codec, checked under SpecCodec *)

LastCall == IF hist = <<>> THEN "none" ELSE hist[Len(hist)]

IsFloatTok(tok) == tok.t = "num"
IsIntTok(tok) == tok.t = "num" /\ tok.k = 0

\* a line load_kitti_labels is to turn into a record
WellFormed(line) ==
    /\ Len(line) >= 15
    /\ \A i \in 1..Len(line) : (i = 2 \/ (4 <= i /\ i <= 16)) => IsFloatTok(line[i])
    /\ IsIntTok(line[3])

\* the number v is the value of the numeral tok
ValueOf(v, tok) ==
    /\ IsNum(v)
    /\ Pow10(tok.k) % v[2] = 0
    /\ v[1] * (Pow10(tok.k) \div v[2]) = tok.m

\* obj holds the fields of line, in the KITTI field order
RecordOfLine(obj, line) ==
    /\ DOMAIN obj = {RequiredFields[i] : i \in 1..Len(RequiredFields)} \cup {"score"}
    /\ obj["class_name"] = <<line[1]>>
    /\ ValueOf(obj["truncation"], line[2])
    /\ obj["occlusion"] = line[3].m
    /\ ValueOf(obj["alpha"], line[4])
    /\ Len(obj["bounding_box"]) = 4
    /\ \A c \in 1..4 : ValueOf(obj["bounding_box"][c], line[4 + c])
    /\ Len(obj["3d_dimensions"]) = 3
    /\ \A c \in 1..3 : ValueOf(obj["3d_dimensions"][c], line[8 + c])
    /\ Len(obj["location"]) = 3
    /\ \A c \in 1..3 : ValueOf(obj["location"][c], line[11 + c])
    /\ ValueOf(obj["rotation_y"], line[15])
    /\ IF Len(line) >= 16 THEN ValueOf(obj["score"], line[16]) ELSE obj["score"] = None

\* C3: load_kitti_labels returns one record per well-formed line, in line
\* order: blank lines, lines of fewer than 15 tokens and lines with a token
\* that does not parse are passed over without losing or reordering the
\* others; score is the 16th token when there is one and None otherwise.
C3_OneRecordPerWellFormedLine ==
    LastCall = "load" =>
        LET lines == IF fs.file = "ok" THEN SelectSeq(text, WellFormed) ELSE <<>> IN
        /\ Len(loaded) = Len(lines)
        /\ \A k \in 1..Len(lines) : RecordOfLine(loaded[k], lines[k])

C3_Witness ==
    /\ hist = <<"load">>
    /\ Len(text) = 3
    /\ WellFormed(text[1]) /\ Len(text[1]) = 15
    /\ ~WellFormed(text[2]) /\ Len(text[2]) >= 15
    /\ WellFormed(text[3]) /\ Len(text[3]) > 15
    /\ Len(loaded) = 2
    /\ loaded[1]["score"] = None
    /\ loaded[2]["score"] # None

\* 2 * |m - orig * 10^k| <= 1: m / 10^k is orig rounded to k decimals
RoundsTo(m, orig, k) ==
    /\ IsNum(orig)
    /\ LET g == GCD(Pow10(k), orig[2])
           a == Pow10(k) \div g
           b == orig[2] \div g
       IN  Abs(2 * m * b - 2 * orig[1] * a) <= b

\* v has at most k decimals and is orig rounded to k decimals
Rounded(v, orig, k) ==
    /\ IsNum(v)
    /\ Pow10(k) % v[2] = 0
    /\ RoundsTo(v[1] * (Pow10(k) \div v[2]), orig, k)

ScoreGiven(obj) == Has(obj, "score") /\ obj["score"] # <<>>

AllRequired(obj) == \A i \in 1..Len(RequiredFields) : Has(obj, RequiredFields[i])

\* the validation the claim names: required fields and array lengths
PassesValidation(obj) ==
    /\ AllRequired(obj)
    /\ Len(obj["bounding_box"]) = 4
    /\ Len(obj["3d_dimensions"]) = 3
    /\ Len(obj["location"]) = 3

\* every value that is formatted as a float is a number
NumbersOnly(obj) ==
    /\ IsNum(obj["truncation"]) /\ IsNum(obj["alpha"]) /\ IsNum(obj["rotation_y"])
    /\ \A c \in 1..4 : IsNum(obj["bounding_box"][c])
    /\ \A c \in 1..3 : IsNum(obj["3d_dimensions"][c]) /\ IsNum(obj["location"][c])
    /\ ScoreGiven(obj) => IsNum(obj["score"])

WritableRecord(obj) == PassesValidation(obj) /\ NumbersOnly(obj)

\* a valid record without score whose class_name is one token
ValidGroundTruth(obj) ==
    /\ WritableRecord(obj)
    /\ ~ScoreGiven(obj)
    /\ Len(obj["class_name"]) = 1

\* C4: writing valid records without score and loading the file gives as many
\* records in the same order, with class_name and occlusion exact, score
\* absent, and every numeric field rounded to its written precision.
C4_RoundTrip ==
    (hist = <<"write", "load">> /\ ret = "True"
        /\ \A i \in 1..Len(objects) : ValidGroundTruth(objects[i])) =>
        /\ Len(loaded) = Len(objects)
        /\ \A i \in 1..Len(objects) :
            /\ loaded[i]["class_name"] = objects[i]["class_name"]
            /\ loaded[i]["occlusion"] = objects[i]["occlusion"]
            /\ loaded[i]["score"] = None
            /\ Rounded(loaded[i]["truncation"], objects[i]["truncation"], 2)
            /\ Rounded(loaded[i]["alpha"], objects[i]["alpha"], 6)
            /\ Rounded(loaded[i]["rotation_y"], objects[i]["rotation_y"], 6)
            /\ \A c \in 1..4 :
                Rounded(loaded[i]["bounding_box"][c], objects[i]["bounding_box"][c], 2)
            /\ \A c \in 1..3 :
                /\ Rounded(loaded[i]["3d_dimensions"][c], objects[i]["3d_dimensions"][c], 2)
                /\ Rounded(loaded[i]["location"][c], objects[i]["location"][c], 2)

C4_Witness ==
    /\ hist = <<"write", "load">> /\ ret = "True"
    /\ Len(objects) = 2
    /\ \A i \in 1..2 : ValidGroundTruth(objects[i])
    /\ objects[1] # objects[2]
    /\ Len(loaded) = 2
    /\ loaded[1]["alpha"] # objects[1]["alpha"]
    /\ loaded[2]["rotation_y"] # objects[2]["rotation_y"]

\* C6: write_kitti_labels reports every inability to write the destination,
\* a failure to create the parent directories included, by returning False,
\* and never by an exception.
C6_FailureIsReturnedFalse ==
    LastCall = "write" =>
        /\ ret \in {"True", "False"}
        /\ ret = "True" <=> (fs.parent = "present" /\ fs.file = "ok")

\* tok is the numeral of orig written with k decimals
Writes(tok, orig, k) == tok.t = "num" /\ tok.k = k /\ RoundsTo(tok.m, orig, k)

\* line is the complete line of obj: the class name, the 14 fields in the
\* KITTI order and precision, and the score only if the record has one
LineOfRecord(line, obj) ==
    LET n == Len(obj["class_name"]) IN
    /\ Len(line) = n + 14 + (IF ScoreGiven(obj) THEN 1 ELSE 0)
    /\ SubSeq(line, 1, n) = obj["class_name"]
    /\ Writes(line[n + 1], obj["truncation"], 2)
    /\ line[n + 2] = Num(obj["occlusion"], 0)
    /\ Writes(line[n + 3], obj["alpha"], 6)
    /\ \A c \in 1..4 : Writes(line[n + 3 + c], obj["bounding_box"][c], 2)
    /\ \A c \in 1..3 : Writes(line[n + 7 + c], obj["3d_dimensions"][c], 2)
    /\ \A c \in 1..3 : Writes(line[n + 10 + c], obj["location"][c], 2)
    /\ Writes(line[n + 14], obj["rotation_y"], 6)
    /\ ScoreGiven(obj) => Writes(line[n + 15], obj["score"], 4)

Written == LastCall = "write" /\ fs.parent = "present" /\ fs.file = "ok"

\* C10 as claimed: a write to a writable destination returns True and the file
\* holds one complete line for each record that passes validation (required
\* fields present, array lengths 4, 3, 3), in input order, and nothing else.
C10_SkipsOnlyInvalidRecords ==
    Written =>
        /\ ret = "True"
        /\ Len(text) = Len(SelectSeq(objects, PassesValidation))
        /\ \A k \in 1..Len(text) :
            LineOfRecord(text[k], SelectSeq(objects, PassesValidation)[k])

\* C10, amended: a write to a writable destination returns True and the file
\* holds one complete line for each record that passes validation and whose
\* formatted values (the float fields, and the score when given) are all
\* numbers, in input order, with the score appended iff the record has one;
\* a record that fails validation or holds a value that cannot be formatted
\* leaves no line, partial or otherwise.
C10_SkipsUnwritableRecords ==
    Written =>
        /\ ret = "True"
        /\ Len(text) = Len(SelectSeq(objects, WritableRecord))
        /\ \A k \in 1..Len(text) :
            LineOfRecord(text[k], SelectSeq(objects, WritableRecord)[k])

C10_Witness ==
    /\ Written /\ ret = "True"
    /\ Len(objects) = 2
    /\ ~PassesValidation(objects[1])
    /\ WritableRecord(objects[2]) /\ ScoreGiven(objects[2])
    /\ Len(text) = 1
    /\ Len(text[1]) = 16

====
